---------------------------- MODULE Spec2Model ----------------------------
(***************************************************************************)
(* Model of the classification core of jiwo-quicknote:                     *)
(*   - the task queue and its single worker loop                           *)
(*     (services/incrementalClassifier.js, data store functions),          *)
(*   - the incremental clustering engine (classifyNote, splitCluster,      *)
(*     checkAndMergeClusters, cleanupNoteClassification),                  *)
(*   - the batch classification task runner                                *)
(*     (services/classificationTask.js).                                   *)
(*                                                                         *)
(* JavaScript runs one handler at a time; a handler is suspended only at   *)
(* an await of a network call or of a timer.  Each action below is the     *)
(* code that runs between two such suspension points.                      *)
(*                                                                         *)
(* Numbers.  Embedding components are small naturals.  A centroid is a     *)
(* mean of embeddings and is kept as an exact rational vector              *)
(* [num |-> <<..>>, den |-> n] in lowest terms; a cosine similarity        *)
(* d / sqrt(m) is kept as the pair [d |-> d, m |-> m] and compared         *)
(* exactly.  Rounding of IEEE doubles is not modelled.                     *)
(* localStorage reads and writes are taken to succeed.                     *)
(***************************************************************************)
EXTENDS Integers, Sequences, FiniteSets, TLC

\* ------------------------------------------------------------------ bounds
MaxNotes == 2
MaxTasks == 3
MaxWorkers == 2
MaxBatches == 2     \* batches of the largest note list handed to the batch task
MaxStarts == 2      \* accepted starts of the batch task
MaxRunners == 2     \* activations of startClassificationTask in flight
MaxSplit == 4       \* members of a cluster handed to splitCluster

NoteIds == 1..MaxNotes
Workers == 1..MaxWorkers

\* ------------------------------------------------- constants of the program
MAX_CLUSTER_SIZE == 50
KEEP_COMPLETED == 100
SIMILARITY_THRESHOLD == [d |-> 7, m |-> 100]
MERGE_THRESHOLD == [d |-> 17, m |-> 400]

\* the vectors the embedding provider may return (text in, vector out)
Vectors == { <<1, 0>>, <<1, 1>>, <<0, 1>> }

\* ------------------------------------------------------------ sequences
\* F applied to the value of e, with e evaluated once
Let(e, F(_)) == CHOOSE r \in { F(x) : x \in {e} } : TRUE

Range(s) == { s[i] : i \in 1..Len(s) }

RECURSIVE SumSeq(_)
SumSeq(s) == IF s = <<>> THEN 0 ELSE Head(s) + SumSeq(Tail(s))

Filter(s, Test(_)) == SelectSeq(s, Test)

Count(s, x) == Cardinality({ i \in 1..Len(s) : s[i] = x })

\* index of the first element satisfying Test, 0 when there is none
\* (Array.prototype.findIndex, with -1 shifted to 0)
FindIndex(s, Test(_)) ==
    IF \E i \in 1..Len(s) : Test(s[i])
    THEN CHOOSE i \in 1..Len(s) : Test(s[i]) /\ \A j \in 1..(i-1) : ~Test(s[j])
    ELSE 0

\* ------------------------------------------------------------ VectorMath
Abs(x) == IF x < 0 THEN -x ELSE x

RECURSIVE Gcd(_, _)
Gcd(a, b) == IF b = 0 THEN Abs(a) ELSE Gcd(b, a % b)

RECURSIVE GcdSeq(_)
GcdSeq(s) == IF s = <<>> THEN 0 ELSE Gcd(Head(s), GcdSeq(Tail(s)))

\* a rational vector in lowest terms
Rat(num, den) ==
    Let(<<num, den, Gcd(GcdSeq(num), den)>>, LAMBDA t :
        [num |-> [i \in 1..Len(t[1]) |-> t[1][i] \div t[3]], den |-> t[2] \div t[3]])

\* an embedding as stored: the provider's vector, denominator 1
Emb(v) == [num |-> v, den |-> 1]
EmptyVec == [num |-> <<>>, den |-> 1]

Dot(a, b) == Let([i \in 1..Len(a) |-> a[i] * b[i]], SumSeq)

\* cosine d / sqrt(m) as a pair; 0 is [d |-> 0, m |-> 1]
CosZero == [d |-> 0, m |-> 1]
CosMinusOne == [d |-> -1, m |-> 1]

cosineSimilarity(a, b) ==
    Let(<<a.num, b.num>>, LAMBDA v :
        IF Len(v[1]) # Len(v[2]) \/ Len(v[1]) = 0 THEN CosZero
        ELSE Let(<<Dot(v[1], v[1]), Dot(v[2], v[2])>>, LAMBDA norm :
             IF norm[1] = 0 \/ norm[2] = 0 THEN CosZero
             ELSE [d |-> Dot(v[1], v[2]), m |-> norm[1] * norm[2]]))

\* order of two cosines: sign(d) * d^2 / m is monotone in d / sqrt(m)
SgnSq(c) == IF c.d < 0 THEN -(c.d * c.d) ELSE c.d * c.d
\* a/b < c/d for a, c >= 0 and b, d > 0, by the continued fractions of both
\* (no product of the four numbers is formed)
RECURSIVE FracLT(_, _, _, _)
FracLT(a, b, c, d) ==
    IF (a \div b) # (c \div d) THEN (a \div b) < (c \div d)
    ELSE IF c % d = 0 THEN FALSE
    ELSE IF a % b = 0 THEN TRUE
    ELSE FracLT(d, c % d, b, a % b)
CosLT(c1, c2) ==
    IF (c1.d < 0) # (c2.d < 0) THEN c1.d < 0
    ELSE IF c1.d >= 0 THEN FracLT(SgnSq(c1), c1.m, SgnSq(c2), c2.m)
    ELSE FracLT(-SgnSq(c2), c2.m, -SgnSq(c1), c1.m)
CosGE(c1, c2) == ~CosLT(c1, c2)
CosGT(c1, c2) == CosLT(c2, c1)

\* component-wise mean of a sequence of embeddings (all of denominator 1)
computeCentroid(vectors) ==
    Let(vectors, LAMBDA vs :
        IF Len(vs) = 0 THEN EmptyVec
        ELSE Rat([i \in 1..Len(vs[1].num) |->
                     SumSeq([k \in 1..Len(vs) |-> vs[k].num[i]])], Len(vs)))

\* linear scan with strict >, starting from -1: the first maximum wins,
\* clusters with an empty centroid are skipped
NearestCandidates(embedding, clusters) ==
    { i \in 1..Len(clusters) :
        /\ Len(clusters[i].centroid.num) > 0
        /\ CosGT(cosineSimilarity(embedding, clusters[i].centroid), CosMinusOne) }

\* mutant: of the clusters of the highest similarity the last one wins
findNearestCluster_LastOnTie(embedding, clusters) ==
    LET cand == NearestCandidates(embedding, clusters)
        sim(i) == cosineSimilarity(embedding, clusters[i].centroid)
    IN IF cand = {} THEN [index |-> 0, similarity |-> CosMinusOne]
       ELSE LET best == CHOOSE i \in cand :
                            /\ \A j \in cand : CosGE(sim(i), sim(j))
                            /\ \A j \in cand : j > i => CosLT(sim(j), sim(i))
            IN [index |-> best, similarity |-> sim(best)]

findNearestCluster(embedding, clusters) ==
    LET cand == NearestCandidates(embedding, clusters)
        sim(i) == cosineSimilarity(embedding, clusters[i].centroid)
    IN IF cand = {} THEN [index |-> 0, similarity |-> CosMinusOne]
       ELSE LET best == CHOOSE i \in cand :
                            /\ \A j \in cand : CosGE(sim(i), sim(j))
                            /\ \A j \in cand : j < i => CosLT(sim(j), sim(i))
            IN [index |-> best, similarity |-> sim(best)]

\* ----------------------------------------------------------- ClusterStore
\* embeddings: sequence of [noteId, embedding]
\* clusters  : sequence of [id, centroid, noteIds]
\* A store value st = [embeddings, clusters, nextClusterId] is threaded
\* through the engine's functions; nextClusterId stands for the fresh
\* crypto.randomUUID() of createCluster.

createNoteEmbedding(noteId, vec) == [noteId |-> noteId, embedding |-> Emb(vec)]

createCluster(id, centroid, noteIds) ==
    [id |-> id, centroid |-> centroid, noteIds |-> noteIds]

\* mutant: the record is appended whether or not the note has one
upsertEmbedding_Append(embeddings, embedding) == Append(embeddings, embedding)

upsertEmbedding(embeddings, embedding) ==
    LET existingIndex == FindIndex(embeddings, LAMBDA e : e.noteId = embedding.noteId)
    IN IF existingIndex > 0
       THEN [embeddings EXCEPT ![existingIndex] = embedding]
       ELSE Append(embeddings, embedding)

deleteEmbeddingByNoteId(embeddings, noteId) ==
    SelectSeq(embeddings, LAMBDA e : e.noteId # noteId)

upsertCluster(clusters, cluster) ==
    LET existingIndex == FindIndex(clusters, LAMBDA c : c.id = cluster.id)
    IN IF existingIndex > 0
       THEN [clusters EXCEPT ![existingIndex] = cluster]
       ELSE Append(clusters, cluster)

\* noteIds.splice(noteIds.indexOf(x), 1): drops the first occurrence only
RemoveFirst(s, x) ==
    LET index == FindIndex(s, LAMBDA y : y = x)
    IN IF index = 0 THEN s
       ELSE [i \in 1..(Len(s) - 1) |-> IF i < index THEN s[i] ELSE s[i + 1]]

\* the centroid is left as it was
removeNoteFromCluster(clusters, noteId) ==
    [i \in 1..Len(clusters) |->
        [clusters[i] EXCEPT !.noteIds = RemoveFirst(@, noteId)]]

\* loadEmbeddings().filter(e => noteIds.includes(e.noteId))
MemberEmbeddings(embeddings, noteIds) ==
    SelectSeq(embeddings, LAMBDA e : e.noteId \in Range(noteIds))

VectorsOf(embs) == [i \in 1..Len(embs) |-> embs[i].embedding]
NoteIdsOf(embs) == [i \in 1..Len(embs) |-> embs[i].noteId]

\* ---------------------------------------------------- ClassificationEngine
CosOne == [d |-> 1, m |-> 1]
IndexPairs(n) == { p \in (1..n) \X (1..n) : p[1] < p[2] }
\* order in which the nested loops  for i .. for j = i+1 ..  visit the pairs
PairBefore(p, q) == p[1] < q[1] \/ (p[1] = q[1] /\ p[2] < q[2])

\* the assignment of a member to the two groups of a split
InGroup1(e, point1, point2) ==
    CosGE(cosineSimilarity(e.embedding, point1.embedding),
          cosineSimilarity(e.embedding, point2.embedding))

\* mutant: a member as near to point2 as to point1 also goes to group2
InGroup2_OnTie(e, point1, point2) ==
    CosGE(cosineSimilarity(e.embedding, point2.embedding),
          cosineSimilarity(e.embedding, point1.embedding))

InGroup2(e, point1, point2) == ~InGroup1(e, point1, point2)

splitCluster(st, cluster) ==
    LET clusterEmbeddings == MemberEmbeddings(st.embeddings, cluster.noteIds)
        n == Len(clusterEmbeddings)
        sim(p) == cosineSimilarity(clusterEmbeddings[p[1]].embedding,
                                   clusterEmbeddings[p[2]].embedding)
        \* dist = 1 - sim > maxDist, maxDist starting at 0
        cand == { p \in IndexPairs(n) : CosLT(sim(p), CosOne) }
    IN IF n < 4 \/ cand = {} THEN st
       ELSE LET far == CHOOSE p \in cand :
                          /\ \A q \in cand : CosGE(sim(q), sim(p))
                          /\ \A q \in cand : PairBefore(q, p) => CosGT(sim(q), sim(p))
                point1 == clusterEmbeddings[far[1]]
                point2 == clusterEmbeddings[far[2]]
                group1 == SelectSeq(clusterEmbeddings,
                                    LAMBDA e : InGroup1(e, point1, point2))
                group2 == SelectSeq(clusterEmbeddings,
                                    LAMBDA e : InGroup2(e, point1, point2))
                updated == [cluster EXCEPT !.noteIds = NoteIdsOf(group1),
                                           !.centroid = computeCentroid(VectorsOf(group1))]
                newCluster == createCluster(st.nextClusterId,
                                            computeCentroid(VectorsOf(group2)),
                                            NoteIdsOf(group2))
            IN [st EXCEPT !.clusters = upsertCluster(upsertCluster(@, updated), newCluster),
                          !.nextClusterId = @ + 1]

\* mutant: the centroid of the first cluster is kept
MergedCluster_KeepCentroid(st, clusterA, clusterB) ==
    [clusterA EXCEPT !.noteIds = clusterA.noteIds \o clusterB.noteIds]

\* clusterA after the merge: the note ids of both, the centroid recomputed
\* from the stored embeddings of these notes
MergedCluster(st, clusterA, clusterB) ==
    LET mergedIds == clusterA.noteIds \o clusterB.noteIds
    IN [clusterA EXCEPT
          !.noteIds = mergedIds,
          !.centroid = computeCentroid(
              VectorsOf(MemberEmbeddings(st.embeddings, mergedIds)))]

\* mutant: the threshold of joining decides
ShouldMerge_JoinThreshold(maxSim) == CosGE(maxSim, SIMILARITY_THRESHOLD)

\* if (maxSim >= MERGE_THRESHOLD && mergeI >= 0)
ShouldMerge(maxSim) == CosGE(maxSim, MERGE_THRESHOLD)

checkAndMergeClusters(st) ==
    LET clusters == st.clusters
        sim(p) == cosineSimilarity(clusters[p[1]].centroid, clusters[p[2]].centroid)
        \* sim > maxSim, maxSim starting at 0; pairs with an empty centroid skipped
        cand == { p \in IndexPairs(Len(clusters)) :
                    /\ Len(clusters[p[1]].centroid.num) > 0
                    /\ Len(clusters[p[2]].centroid.num) > 0
                    /\ CosGT(sim(p), CosZero) }
    IN IF Len(clusters) < 2 \/ cand = {} THEN st
       ELSE LET best == CHOOSE p \in cand :
                           /\ \A q \in cand : CosGE(sim(p), sim(q))
                           /\ \A q \in cand : PairBefore(q, p) => CosLT(sim(q), sim(p))
                clusterA == clusters[best[1]]
                clusterB == clusters[best[2]]
                merged == MergedCluster(st, clusterA, clusterB)
                newClusters == SelectSeq(clusters, LAMBDA c : c.id # clusterB.id)
            IN IF ShouldMerge(sim(best))
               THEN [st EXCEPT !.clusters = [newClusters EXCEPT ![best[1]] = merged]]
               ELSE st

\* join: push the note id, recompute the centroid from the stored embeddings
JoinCluster(st, cluster, noteId) ==
    LET noteIds == Append(cluster.noteIds, noteId)
        clusterEmbeddings == VectorsOf(MemberEmbeddings(st.embeddings, noteIds))
    IN [cluster EXCEPT !.noteIds = noteIds,
                       !.centroid = IF Len(clusterEmbeddings) > 0
                                    THEN computeCentroid(clusterEmbeddings)
                                    ELSE @]

NewSingleton(st, noteId, embedding) ==
    [st EXCEPT !.clusters = upsertCluster(@, createCluster(st.nextClusterId,
                                                           embedding, <<noteId>>)),
               !.nextClusterId = @ + 1]

\* classifyNote between upsertEmbedding and the merge check: the first
\* cluster, a join (with the split of a cluster grown beyond
\* MAX_CLUSTER_SIZE), or a new cluster
JoinOrCreate(st, noteId, embedding) ==
    IF Len(st.clusters) = 0 THEN NewSingleton(st, noteId, embedding)
    ELSE Let(findNearestCluster(embedding, st.clusters), LAMBDA nearest :
         IF CosGE(nearest.similarity, SIMILARITY_THRESHOLD)
         THEN Let(JoinCluster(st, st.clusters[nearest.index], noteId), LAMBDA joined :
              Let([st EXCEPT !.clusters = upsertCluster(@, joined)], LAMBDA s2 :
              IF Len(joined.noteIds) > MAX_CLUSTER_SIZE
              THEN splitCluster(s2, joined) ELSE s2))
         ELSE NewSingleton(st, noteId, embedding))

\* classifyNote from the return of generateEmbedding (success) to its end;
\* after the first cluster was created it returns without the merge check
classifyNote(st, noteId, vec) ==
    Let([st EXCEPT !.embeddings = upsertEmbedding(@, createNoteEmbedding(noteId, vec))],
        LAMBDA s1 :
    IF Len(s1.clusters) = 0 THEN JoinOrCreate(s1, noteId, Emb(vec))
    ELSE checkAndMergeClusters(JoinOrCreate(s1, noteId, Emb(vec))))

\* ---- reclassifyAll, phase 2
\* embeddingsMap.get(id): the stored embedding of the note, as a sequence of
\* no or one vector
MapGet(embeddings, noteId) ==
    VectorsOf(SelectSeq(embeddings, LAMBDA e : e.noteId = noteId))

RECURSIVE MappedEmbeddings(_, _)
\* noteIds.map(id => embeddingsMap.get(id)).filter(e => e && e.embedding)
MappedEmbeddings(embeddings, noteIds) ==
    IF noteIds = <<>> THEN <<>>
    ELSE MapGet(embeddings, Head(noteIds)) \o MappedEmbeddings(embeddings, Tail(noteIds))

\* join in phase 2: push the note id, recompute the centroid from the map
ReclassifyJoin(st, cluster, noteId) ==
    LET noteIds == Append(cluster.noteIds, noteId)
        clusterEmbeddings == MappedEmbeddings(st.embeddings, noteIds)
    IN [cluster EXCEPT !.noteIds = noteIds,
                       !.centroid = IF Len(clusterEmbeddings) > 0
                                    THEN computeCentroid(clusterEmbeddings)
                                    ELSE @]

\* the body of the phase 2 loop for one note
ReclassifyNote(st, noteId) ==
    Let(MapGet(st.embeddings, noteId), LAMBDA noteEmbedding :
    IF Len(noteEmbedding) = 0 THEN st
    ELSE IF Len(st.clusters) = 0 THEN NewSingleton(st, noteId, noteEmbedding[1])
    ELSE Let(findNearestCluster(noteEmbedding[1], st.clusters), LAMBDA nearest :
         IF CosGE(nearest.similarity, SIMILARITY_THRESHOLD)
         THEN [st EXCEPT !.clusters =
                  upsertCluster(@, ReclassifyJoin(st, st.clusters[nearest.index], noteId))]
         ELSE NewSingleton(st, noteId, noteEmbedding[1])))

RECURSIVE ReclassifyPhase2(_, _)
\* for (const note of validNotes) { ... }
ReclassifyPhase2(st, validNotes) ==
    IF validNotes = <<>> THEN st
    ELSE ReclassifyPhase2(ReclassifyNote(st, Head(validNotes)), Tail(validNotes))

RECURSIVE SaveBatchEmbeddings(_, _, _)
\* phase 1 after the batch call: results[i] is the vector returned for
\* validNotes[i], <<>> when the provider failed for it
SaveBatchEmbeddings(embeddings, validNotes, results) ==
    IF validNotes = <<>> THEN embeddings
    ELSE SaveBatchEmbeddings(
             IF Head(results) # <<>>
             THEN upsertEmbedding(embeddings,
                                  createNoteEmbedding(Head(validNotes), Head(results)))
             ELSE embeddings,
             Tail(validNotes), Tail(results))

\* cleanupNoteClassification
cleanupNoteClassification(st, noteId) ==
    [st EXCEPT !.embeddings = deleteEmbeddingByNoteId(@, noteId),
               !.clusters = removeNoteFromCluster(@, noteId)]

\* -------------------------------------------------------------- TaskQueue
\* task: [id, noteId, status, error, completedAt]; id stands for the fresh
\* crypto.randomUUID(), completedAt for the time stamp of completion
\* (0: null).

createClassificationTask(id, noteId) ==
    [id |-> id, noteId |-> noteId, status |-> "pending",
     error |-> "null", completedAt |-> 0]

\* mutant: no check for an existing pending task of the note
enqueueClassificationTask_NoDedup(queue, task) == Append(queue, task)

enqueueClassificationTask(queue, task) ==
    IF \E i \in 1..Len(queue) :
           queue[i].noteId = task.noteId /\ queue[i].status = "pending"
    THEN queue
    ELSE Append(queue, task)

\* mutant: a failed task is picked again
getNextPendingTask_RetryFailed(queue) ==
    FindIndex(queue, LAMBDA t : t.status \in {"pending", "error"})

\* mutant: the newest pending task is picked
getNextPendingTask_Newest(queue) ==
    IF \E i \in 1..Len(queue) : queue[i].status = "pending"
    THEN CHOOSE i \in 1..Len(queue) :
            /\ queue[i].status = "pending"
            /\ \A j \in (i+1)..Len(queue) : queue[j].status # "pending"
    ELSE 0

\* index of the first pending task, 0 when there is none
getNextPendingTask(queue) == FindIndex(queue, LAMBDA t : t.status = "pending")

updateTaskStatus(queue, taskId, status, error, now) ==
    LET index == FindIndex(queue, LAMBDA t : t.id = taskId)
    IN IF index = 0 THEN queue
       ELSE [queue EXCEPT ![index] =
                [@ EXCEPT !.status = status,
                          !.error = error,
                          !.completedAt = IF status \in {"done", "error"}
                                          THEN now ELSE @]]

\* s sorted by descending completedAt, elements of equal time kept in
\* their order (Array.prototype.sort is stable)
\* mutant: the completed tasks keep the order of the queue
SortByCompletedDesc_Unsorted(s) == s

SortByCompletedDesc(s) ==
    LET Before(j, i) == \/ s[j].completedAt > s[i].completedAt
                        \/ s[j].completedAt = s[i].completedAt /\ j < i
        Rank(i) == Cardinality({ j \in 1..Len(s) : Before(j, i) })
    IN Let([i \in 1..Len(s) |-> Rank(i)], LAMBDA rank :
           [k \in 1..Len(s) |-> s[CHOOSE i \in 1..Len(s) : rank[i] = k - 1]])

Take(s, n) == IF Len(s) <= n THEN s ELSE SubSeq(s, 1, n)

cleanupCompletedTasks(queue) ==
    LET pending == SelectSeq(queue, LAMBDA t : t.status \in {"pending", "processing"})
        completed == Take(SortByCompletedDesc(
                         SelectSeq(queue, LAMBDA t : t.status \in {"done", "error"})),
                         KEEP_COMPLETED)
    IN pending \o completed


\* ------------------------------------------------- batch classification task
BATCH_SIZE == 30
MAX_RETRIES == 3

Runners == 1..MaxRunners

\* numbers of valid notes a caller may hand over (0: nothing to classify)
NoteCounts == {0} \cup { BATCH_SIZE * b - 10 : b \in 1..MaxBatches }

Min(a, b) == IF a < b THEN a ELSE b
Max(a, b) == IF a < b THEN b ELSE a

\* the sizes of the batches of a list of  count  notes
createBatches(count) ==
    [ j \in 1..((count + BATCH_SIZE - 1) \div BATCH_SIZE) |->
          Min(BATCH_SIZE, count - (j - 1) * BATCH_SIZE) ]

createInitialState ==
    [status |-> "idle", totalNotes |-> 0, processedNotes |-> 0,
     currentBatch |-> 0, totalBatches |-> 0, batchResults |-> <<>>,
     error |-> "null", retryCount |-> 0]

\* a storage key holds <<>> (no item) or <<value>>
getTaskState(item) == IF item = <<>> THEN createInitialState ELSE item[1]

\* the result of batch i as produced by the run  run  (two runs of the same
\* batch call the model anew and need not agree)
BatchResult(i, run) == [batch |-> i, run |-> run]

\* an array slot that was never written (null once serialised)
Hole == [batch |-> -1, run |-> 0]

\* results[i] = v  on a JavaScript array, i counted from 0
SetAt(results, i, v) ==
    [ j \in 1..Max(Len(results), i + 1) |->
          IF j = i + 1 THEN v
          ELSE IF j <= Len(results) THEN results[j] ELSE Hole ]

IdleRunner ==
    [pc |-> "idle", state |-> createInitialState, cachedResults |-> <<>>,
     i |-> 0, retries |-> 0, batches |-> <<>>, run |-> 0]

\* mutant: the batch loop never looks at the abort signal
BatchLoop_NoAbortCheck(r, controller) ==
    IF r.i < Len(r.batches)
    THEN Let([r.state EXCEPT !.currentBatch = r.i], LAMBDA st :
             [runner |-> [r EXCEPT !.pc = "fetch", !.retries = 0, !.state = st],
              state |-> st])
    ELSE [runner |-> IdleRunner,
          state |-> [r.state EXCEPT !.status = "completed",
                                    !.batchResults = r.cachedResults]]

\* The synchronous code from the test of the batch loop to the next
\* suspension or to the return, for the activation r whose i is the loop
\* index; controller is the state of the controller the module variable
\* refers to.  Yields the activation and the task state it saves.
BatchLoop(r, controller) ==
    IF r.i < Len(r.batches)
    THEN IF controller = "aborted"
         THEN [runner |-> IdleRunner,
               state |-> [r.state EXCEPT !.status = "paused"]]
         ELSE Let([r.state EXCEPT !.currentBatch = r.i], LAMBDA st :
                  [runner |-> [r EXCEPT !.pc = "fetch", !.retries = 0,
                                        !.state = st],
                   state |-> st])
    ELSE [runner |-> IdleRunner,
          state |-> [r.state EXCEPT !.status = "completed",
                                    !.batchResults = r.cachedResults]]

\* mutant: a paused task is continued whatever the number of notes
Resumes_IgnoreCount(existing, count) == existing.status = "paused"

\* the paused task of the same number of notes is continued
Resumes(existing, count) ==
    existing.status = "paused" /\ existing.totalNotes = count

\* the task state startClassificationTask begins with: the task is continued
\* or started afresh
StartState(existing, count) ==
    IF Resumes(existing, count)
    THEN [existing EXCEPT !.status = "running", !.error = "null"]
    ELSE [createInitialState EXCEPT !.status = "running",
                                    !.totalNotes = count,
                                    !.totalBatches = Len(createBatches(count))]

\* ---- mergeAndGroupResults
\* a classified note: [id, tags]; a topic: [title, notes, count], notes
\* being the ids of its notes
MIN_TOPIC_SIZE == 2
\* the title of the catch-all topic ("other" in Chinese in the source)
CatchAll == "other"

RECURSIVE Flatten(_)
\* batchResults.flat()
Flatten(seqs) == IF seqs = <<>> THEN <<>> ELSE Head(seqs) \o Flatten(Tail(seqs))

RECURSIVE Dedupe(_)
\* the keys of a Map filled in the order of s: each value once, at the place
\* of its first occurrence
Dedupe(s) ==
    IF s = <<>> THEN <<>>
    ELSE Let(Dedupe(SubSeq(s, 1, Len(s) - 1)), LAMBDA r :
             IF s[Len(s)] \in Range(r) THEN r ELSE Append(r, s[Len(s)]))

\* the ids pushed to the group of a tag: once per occurrence of the tag
RECURSIVE TagGroup(_, _)
TagGroup(items, tag) ==
    IF items = <<>> THEN <<>>
    ELSE [k \in 1..Count(Head(items).tags, tag) |-> Head(items).id]
            \o TagGroup(Tail(items), tag)

\* topics.sort((a, b) => b.count - a.count): stable
SortByCountDesc(s) ==
    LET Before(j, i) == \/ s[j].count > s[i].count
                        \/ s[j].count = s[i].count /\ j < i
        Rank(i) == Cardinality({ j \in 1..Len(s) : Before(j, i) })
    IN Let([i \in 1..Len(s) |-> Rank(i)], LAMBDA rank :
           [k \in 1..Len(s) |-> s[CHOOSE i \in 1..Len(s) : rank[i] = k - 1]])

\* mutant: a topic of any size is a main topic
IsMainTopic_AnySize(t) == t.title # CatchAll

IsMainTopic(t) == t.count >= MIN_TOPIC_SIZE /\ t.title # CatchAll
IsSmallTopic(t) == t.count < MIN_TOPIC_SIZE \/ t.title = CatchAll

mergeAndGroupResults(batchResults) ==
    LET allClassified == Flatten(batchResults)
        tags == Dedupe(Flatten([i \in 1..Len(allClassified) |-> allClassified[i].tags]))
        topicOf(tag) ==
            Let(Dedupe(TagGroup(allClassified, tag)), LAMBDA uniqueNotes :
                [title |-> tag, notes |-> uniqueNotes, count |-> Len(uniqueNotes)])
        topics == SortByCountDesc([i \in 1..Len(tags) |-> topicOf(tags[i])])
        mainTopics == SelectSeq(topics, IsMainTopic)
        smallTopics == SelectSeq(topics, IsSmallTopic)
        otherNotes == Dedupe(Flatten([i \in 1..Len(smallTopics) |-> smallTopics[i].notes]))
    IN IF Len(smallTopics) > 0 /\ Len(otherNotes) > 0
       THEN Append(mainTopics,
                   [title |-> CatchAll, notes |-> otherNotes, count |-> Len(otherNotes)])
       ELSE mainTopics

VARIABLES
    notes,          \* note id -> "absent" | "empty" | "text"     (loadNotes)
    store,          \* [embeddings, clusters, nextClusterId]      (ClusterStore)
    queue,          \* the persisted classification queue
    nextTaskId,     \* next fresh task id
    clock,          \* time stamps handed out so far
    isProcessing,   \* the module flag of incrementalClassifier.js
    workers,        \* activations of processQueue: [pc, taskId, noteId]
    lastClassified, \* [noteId, times]: the note classifyNote last completed
                    \* for, and how often in a row with no other change of
                    \* the stores in between
    taskState,      \* storage item of the batch task state: <<>> or <<state>>
    batchCache,     \* storage item of the batch results (<<>> when absent)
    currentTaskController, \* "null", or the state of the controller the
                    \* module variable refers to: "live" | "aborted"
    runners,        \* activations of startClassificationTask
    starts,         \* accepted starts so far
    lastCall,       \* the last call of startClassificationTask / retryTask
                    \* and how it ended: [op, count, outcome]
    reclassify,     \* the activation of reclassifyAll and what the last one
                    \* returned: [pc, validNotes, result, runs]
    preview         \* the topics the panel shows: <<>> or <<topics>>

queueVars == <<notes, store, queue, nextTaskId, clock, isProcessing, workers, lastClassified>>
batchVars == <<taskState, batchCache, currentTaskController, runners, starts, lastCall>>
panelVars == <<reclassify, preview>>
vars == <<notes, store, queue, nextTaskId, clock, isProcessing, workers, lastClassified,
          taskState, batchCache, currentTaskController, runners, starts, lastCall,
          reclassify, preview>>

IdleWorker == [pc |-> "idle", taskId |-> 0, noteId |-> 0]
NoneClassified == [noteId |-> 0, times |-> 0]

NoteValid(n) == notes[n] = "text"

\* One pass through the head of the worker loop: from  while (true)  to the
\* next suspension, or to the end of processQueue.  classifyNote checks the
\* note before its first await: for a missing or empty note it returns a
\* rejected promise at once ("rejected"), otherwise it awaits the embedding
\* provider ("embedding").
LoopHead(q) ==
    Let(getNextPendingTask(q), LAMBDA index :
        IF index = 0
        THEN [queue |-> cleanupCompletedTasks(q), worker |-> IdleWorker,
              isProcessing |-> FALSE]
        ELSE [queue |-> updateTaskStatus(q, q[index].id, "processing", "null", 0),
              worker |-> [pc |-> IF NoteValid(q[index].noteId)
                                 THEN "embedding" ELSE "rejected",
                          taskId |-> q[index].id, noteId |-> q[index].noteId],
              isProcessing |-> TRUE])

\* mutant: processQueue without its isProcessing guard
WorkerMayStart_NoGuard == TRUE

\* the guard of processQueue
WorkerMayStart == ~isProcessing

\* processQueue() called with the queue q: returns at once when the flag is
\* set, otherwise a new activation runs the head of the loop
processQueue(q) ==
    IF ~WorkerMayStart
    THEN /\ queue' = q
         /\ UNCHANGED <<isProcessing, workers>>
    ELSE \E w \in Workers :
           /\ workers[w].pc = "idle"
           /\ \A v \in Workers : v < w => workers[v].pc # "idle"
           /\ \E r \in {LoopHead(q)} :
                 /\ queue' = r.queue
                 /\ isProcessing' = r.isProcessing
                 /\ workers' = [workers EXCEPT ![w] = r.worker]

EnqueueNote(n) ==
    /\ nextTaskId <= MaxTasks
    /\ nextTaskId' = nextTaskId + 1
    /\ processQueue(enqueueClassificationTask(queue,
                        createClassificationTask(nextTaskId, n)))
    /\ UNCHANGED <<notes, store, clock, lastClassified>>
    /\ UNCHANGED <<batchVars, panelVars>>

ProcessQueue ==
    /\ processQueue(queue)
    /\ UNCHANGED <<notes, store, nextTaskId, clock, lastClassified>>
    /\ UNCHANGED <<batchVars, panelVars>>

\* generateEmbedding returns a vector: the rest of classifyNote runs, the
\* task is marked done, the loop awaits its delay
EmbeddingOk(w, vec) ==
    /\ workers[w].pc = "embedding"
    /\ store' = classifyNote(store, workers[w].noteId, vec)
    /\ queue' = updateTaskStatus(queue, workers[w].taskId, "done", "null", clock + 1)
    /\ clock' = clock + 1
    /\ workers' = [workers EXCEPT ![w].pc = "delay"]
    /\ lastClassified' =
          IF lastClassified.noteId = workers[w].noteId
          THEN [lastClassified EXCEPT !.times = IF @ < 2 THEN @ + 1 ELSE @]
          ELSE [noteId |-> workers[w].noteId, times |-> 1]
    /\ UNCHANGED <<notes, nextTaskId, isProcessing>>
    /\ UNCHANGED <<batchVars, panelVars>>

\* mutant: the failure ends the worker run (the exception leaves the loop)
TaskFailed_Abort(w, message) ==
    /\ queue' = updateTaskStatus(queue, workers[w].taskId, "error", message, clock + 1)
    /\ clock' = clock + 1
    /\ workers' = [workers EXCEPT ![w] = IdleWorker]
    /\ isProcessing' = FALSE

\* mutant: the task is marked error without the message of the exception
TaskFailed_NoMessage(w, message) ==
    /\ queue' = updateTaskStatus(queue, workers[w].taskId, "error", "null", clock + 1)
    /\ clock' = clock + 1
    /\ workers' = [workers EXCEPT ![w].pc = "delay"]
    /\ UNCHANGED isProcessing

\* the catch block of the worker loop: the task is marked error with the
\* message of the exception, and the loop goes on to its delay
TaskFailed(w, message) ==
    /\ queue' = updateTaskStatus(queue, workers[w].taskId, "error", message, clock + 1)
    /\ clock' = clock + 1
    /\ workers' = [workers EXCEPT ![w].pc = "delay"]
    /\ UNCHANGED isProcessing

\* generateEmbedding reports failure: classifyNote throws
EmbeddingFail(w) ==
    /\ workers[w].pc = "embedding"
    /\ TaskFailed(w, "embedding")
    /\ UNCHANGED <<notes, store, nextTaskId, lastClassified>>
    /\ UNCHANGED <<batchVars, panelVars>>

\* classifyNote rejected the note (missing or empty content)
ClassifyRejected(w) ==
    /\ workers[w].pc = "rejected"
    /\ TaskFailed(w, "invalid")
    /\ UNCHANGED <<notes, store, nextTaskId, lastClassified>>
    /\ UNCHANGED <<batchVars, panelVars>>

\* mutant: the worker handles one task and returns (if instead of while)
DelayElapsed_ExitAfterOne(w) ==
    /\ workers[w].pc = "delay"
    /\ queue' = cleanupCompletedTasks(queue)
    /\ isProcessing' = FALSE
    /\ workers' = [workers EXCEPT ![w] = IdleWorker]
    /\ UNCHANGED <<notes, store, nextTaskId, clock, lastClassified>>
    /\ UNCHANGED <<batchVars, panelVars>>

\* the 100 ms delay is over: next pass through the loop
DelayElapsed(w) ==
    /\ workers[w].pc = "delay"
    /\ \E r \in {LoopHead(queue)} :
          /\ queue' = r.queue
          /\ isProcessing' = r.isProcessing
          /\ workers' = [workers EXCEPT ![w] = r.worker]
    /\ UNCHANGED <<notes, store, nextTaskId, clock, lastClassified>>
    /\ UNCHANGED <<batchVars, panelVars>>

\* handleConfirmDelete: the note is removed and its classification data
\* cleaned up
DeleteNote(n) ==
    /\ notes[n] # "absent"
    /\ notes' = [notes EXCEPT ![n] = "absent"]
    /\ store' = cleanupNoteClassification(store, n)
    /\ lastClassified' = NoneClassified
    /\ UNCHANGED <<queue, nextTaskId, clock, isProcessing, workers>>
    /\ UNCHANGED <<batchVars, panelVars>>

\* ------------------------------------------------------------ reclassifyAll
MaxReclassify == 2      \* calls of reclassifyAll

\* what reclassifyAll returned: outcome "failed" for { success: false, error },
\* "ok" for { success: true, stats }
NoStats == [total |-> 0, completed |-> 0, errors |-> 0, clusters |-> 0]
NoResult == [outcome |-> "none", stats |-> NoStats]
IdleReclassify == [pc |-> "idle", validNotes |-> <<>>, result |-> NoResult, runs |-> 0]
NoPreview == <<>>

\* notes.filter(n => n.content && n.content.trim().length > 0), by id
ValidNotes == SelectSeq([n \in NoteIds |-> n], NoteValid)

\* what the batch call can return for k notes: a vector or a failure each
BatchEmbeddings(k) == [1..k -> Vectors \cup {<<>>}]

\* mutant: the cluster store is emptied before the valid notes are counted
ReclassifyStart_ClearFirst ==
    /\ reclassify.pc = "idle"
    /\ reclassify.runs < MaxReclassify
    /\ store' = [store EXCEPT !.clusters = <<>>]
    /\ lastClassified' = NoneClassified
    /\ IF Len(ValidNotes) = 0
       THEN reclassify' = [reclassify EXCEPT
                              !.result = [outcome |-> "failed", stats |-> NoStats],
                              !.runs = @ + 1]
       ELSE reclassify' = [pc |-> "embedding", validNotes |-> ValidNotes,
                           result |-> NoResult, runs |-> reclassify.runs + 1]
    /\ UNCHANGED <<notes, queue, nextTaskId, clock, isProcessing, workers>>
    /\ UNCHANGED <<batchVars, preview>>

\* handleStartClassify / reclassifyAll up to its first await: without a
\* valid note it returns the failure at once, otherwise it empties the
\* cluster store and awaits generateEmbeddingsBatch
ReclassifyStart ==
    /\ reclassify.pc = "idle"
    /\ reclassify.runs < MaxReclassify
    /\ IF Len(ValidNotes) = 0
       THEN /\ reclassify' = [reclassify EXCEPT
                                !.result = [outcome |-> "failed", stats |-> NoStats],
                                !.runs = @ + 1]
            /\ UNCHANGED <<store, lastClassified>>
       ELSE /\ reclassify' = [pc |-> "embedding", validNotes |-> ValidNotes,
                              result |-> NoResult,
                              runs |-> reclassify.runs + 1]
            /\ store' = [store EXCEPT !.clusters = <<>>]
            /\ lastClassified' = NoneClassified
    /\ UNCHANGED <<notes, queue, nextTaskId, clock, isProcessing, workers>>
    /\ UNCHANGED <<batchVars, preview>>

\* generateEmbeddingsBatch has returned: the embeddings are saved, phase 2
\* clusters the valid notes, one merge check follows, the stats are returned
ReclassifyFinish(results) ==
    /\ reclassify.pc = "embedding"
    /\ results \in BatchEmbeddings(Len(reclassify.validNotes))
    /\ \E saved \in {[store EXCEPT !.embeddings =
                          SaveBatchEmbeddings(@, reclassify.validNotes, results)]} :
       \E done \in {checkAndMergeClusters(ReclassifyPhase2(saved, reclassify.validNotes))} :
       \E errors \in {Len(SelectSeq(results, LAMBDA r : r = <<>>))} :
          /\ store' = done
          /\ reclassify' = [reclassify EXCEPT
                !.pc = "idle",
                !.validNotes = <<>>,
                !.result = [outcome |-> "ok",
                            stats |-> [total |-> Len(reclassify.validNotes),
                                       completed |-> Len(reclassify.validNotes) - errors,
                                       errors |-> errors,
                                       clusters |-> Len(done.clusters)]]]
    /\ lastClassified' = NoneClassified
    /\ UNCHANGED <<notes, queue, nextTaskId, clock, isProcessing, workers>>
    /\ UNCHANGED <<batchVars, preview>>

NoCall == [op |-> "none", count |-> 0, outcome |-> "none"]

EmptyStore == [embeddings |-> <<>>, clusters |-> <<>>, nextClusterId |-> 1]

Init ==
    /\ notes \in [NoteIds -> {"text", "empty"}]
    /\ store = EmptyStore
    /\ queue = <<>>
    /\ nextTaskId = 1
    /\ clock = 0
    /\ isProcessing = FALSE
    /\ workers = [w \in Workers |-> IdleWorker]
    /\ lastClassified = NoneClassified
    /\ taskState = <<>>
    /\ batchCache = <<>>
    /\ currentTaskController = "null"
    /\ runners = [w \in Runners |-> IdleRunner]
    /\ starts = 0
    /\ lastCall = NoCall
    /\ reclassify = IdleReclassify
    /\ preview = NoPreview

WorkerStep(w) ==
    \/ EmbeddingFail(w)
    \/ \E vec \in Vectors : EmbeddingOk(w, vec)
    \/ ClassifyRejected(w)
    \/ DelayElapsed(w)

\* the queue and its worker
Next ==
    \/ \E n \in NoteIds : EnqueueNote(n)
    \/ ProcessQueue
    \/ \E w \in Workers : WorkerStep(w)

Spec == Init /\ [][Next]_vars

\* every started network call returns and every timer fires
SpecFair == Spec /\ \A w \in Workers : WF_vars(WorkerStep(w))

\* the queue, its worker, and deletion of notes
NextDelete ==
    \/ Next
    \/ \E n \in NoteIds : DeleteNote(n)

SpecDelete == Init /\ [][NextDelete]_vars

\* the queue, its worker, deletion of notes, and reclassifyAll
NextReclassify ==
    \/ \E n \in NoteIds : nextTaskId < MaxTasks /\ EnqueueNote(n)
    \/ ProcessQueue
    \/ \E w \in Workers : WorkerStep(w)
    \/ \E n \in NoteIds : DeleteNote(n)
    \/ ReclassifyStart
    \/ \E results \in UNION { BatchEmbeddings(k) : k \in 1..MaxNotes } :
          ReclassifyFinish(results)

SpecReclassify == Init /\ [][NextReclassify]_vars

\* ------------------------------------------------- batch task: operations
ActiveRunners == { w \in Runners : runners[w].pc # "idle" }

Call(op, count, outcome) == [op |-> op, count |-> count, outcome |-> outcome]

\* startClassificationTask(notes) with  count  valid notes, reading the task
\* state  item  from storage; op names the caller for lastCall.
\* The function runs without suspension up to the first model call.
startClassificationTask(item, count, op) ==
    \E existing \in {getTaskState(item)} :
      IF count = 0
      THEN /\ taskState' = item
           /\ lastCall' = Call(op, count, "no notes")
           /\ UNCHANGED <<batchCache, currentTaskController, runners, starts>>
      ELSE IF existing.status = "running"
      THEN /\ taskState' = item
           /\ lastCall' = Call(op, count, "already running")
           /\ UNCHANGED <<batchCache, currentTaskController, runners, starts>>
      ELSE /\ starts < MaxStarts
           /\ \E w \in Runners :
                /\ runners[w].pc = "idle"
                /\ \A v \in Runners : v < w => runners[v].pc # "idle"
                /\ \E cache \in {IF Resumes(existing, count) THEN batchCache ELSE <<>>} :
                   \E state \in {StartState(existing, count)} :
                   \E r \in {BatchLoop([pc |-> "start", state |-> state,
                                        cachedResults |-> cache,
                                        i |-> state.currentBatch, retries |-> 0,
                                        batches |-> createBatches(count),
                                        run |-> starts + 1], "live")} :
                      /\ batchCache' = cache
                      /\ taskState' = <<r.state>>
                      /\ runners' = [runners EXCEPT ![w] = r.runner]
                /\ currentTaskController' = "live"
                /\ starts' = starts + 1
                /\ lastCall' = Call(op, count,
                                    IF Resumes(existing, count) THEN "resumed"
                                    ELSE "fresh")

StartTask(count) ==
    /\ startClassificationTask(taskState, count, "start")
    /\ UNCHANGED <<queueVars, panelVars>>

\* mutant: retryTask also resets the status before it starts the task
RetryTask_ResetsStatus(count) ==
    /\ \E state \in {getTaskState(taskState)} :
         IF state.status \notin {"error", "paused"}
         THEN /\ lastCall' = Call("retry", count, "not retryable")
              /\ UNCHANGED <<taskState, batchCache, currentTaskController,
                             runners, starts>>
         ELSE startClassificationTask(
                  <<[state EXCEPT !.error = "null", !.retryCount = 0,
                                  !.status = "idle"]>>,
                  count, "retry")
    /\ UNCHANGED <<queueVars, panelVars>>

\* retryTask(notes)
RetryTask(count) ==
    /\ \E state \in {getTaskState(taskState)} :
         IF state.status \notin {"error", "paused"}
         THEN /\ lastCall' = Call("retry", count, "not retryable")
              /\ UNCHANGED <<taskState, batchCache, currentTaskController,
                             runners, starts>>
         ELSE startClassificationTask(
                  <<[state EXCEPT !.error = "null", !.retryCount = 0]>>,
                  count, "retry")
    /\ UNCHANGED <<queueVars, panelVars>>

\* pauseTask()
PauseTask ==
    /\ currentTaskController' =
          IF currentTaskController = "null" THEN "null" ELSE "aborted"
    /\ UNCHANGED <<taskState, batchCache, runners, starts, lastCall>>
    /\ UNCHANGED <<queueVars, panelVars>>

\* clearTask()
ClearTask ==
    /\ taskState' = <<>>
    /\ batchCache' = <<>>
    /\ UNCHANGED <<currentTaskController, runners, starts, lastCall>>
    /\ UNCHANGED <<queueVars, panelVars>>

\* mutant: the result of the batch is kept in memory only, the cache in
\* storage is written when the task is done
BatchOk_CacheAtEnd(w) ==
    /\ runners[w].pc = "fetch"
    /\ \E r \in {runners[w]} :
       \E results \in {SetAt(r.cachedResults, r.i, BatchResult(r.i, r.run))} :
       \E next \in {BatchLoop([r EXCEPT !.cachedResults = results,
                                        !.state.processedNotes = @ + r.batches[r.i + 1],
                                        !.state.batchResults = results,
                                        !.i = r.i + 1],
                              currentTaskController)} :
          /\ batchCache' = IF next.state.status = "completed" THEN results
                                                                ELSE batchCache
          /\ taskState' = <<next.state>>
          /\ runners' = [runners EXCEPT ![w] = next.runner]
    /\ UNCHANGED <<currentTaskController, starts, lastCall>>
    /\ UNCHANGED <<queueVars, panelVars>>

\* processBatch returned the parsed result of batch i: it is written to the
\* cache, the progress is saved, and the loop goes to its next index
BatchOk(w) ==
    /\ runners[w].pc = "fetch"
    /\ \E r \in {runners[w]} :
       \E results \in {SetAt(r.cachedResults, r.i, BatchResult(r.i, r.run))} :
       \E next \in {BatchLoop([r EXCEPT !.cachedResults = results,
                                        !.state.processedNotes = @ + r.batches[r.i + 1],
                                        !.state.batchResults = results,
                                        !.i = r.i + 1],
                              currentTaskController)} :
          /\ batchCache' = results
          /\ taskState' = <<next.state>>
          /\ runners' = [runners EXCEPT ![w] = next.runner]
    /\ UNCHANGED <<currentTaskController, starts, lastCall>>
    /\ UNCHANGED <<queueVars, panelVars>>

\* mutant: the limit is tested with > instead of >=
BatchFail_OneMore(w) ==
    /\ runners[w].pc = "fetch"
    /\ \E r \in {[runners[w] EXCEPT !.retries = @ + 1, !.state.retryCount = @ + 1]} :
          IF r.retries > MAX_RETRIES
          THEN /\ taskState' = <<[r.state EXCEPT !.status = "error",
                                                 !.error = "failed"]>>
               /\ runners' = [runners EXCEPT ![w] = IdleRunner]
          ELSE /\ runners' = [runners EXCEPT ![w] = [r EXCEPT !.pc = "retryDelay"]]
               /\ UNCHANGED taskState
    /\ UNCHANGED <<batchCache, currentTaskController, starts, lastCall>>
    /\ UNCHANGED <<queueVars, panelVars>>

\* mutant: a failed batch is tried again without counting the attempt
BatchFail_RetryForever(w) ==
    /\ runners[w].pc = "fetch"
    /\ runners' = [runners EXCEPT ![w].pc = "retryDelay"]
    /\ UNCHANGED <<taskState, batchCache, currentTaskController, starts, lastCall>>
    /\ UNCHANGED <<queueVars, panelVars>>

\* processBatch threw (request failed, or the answer could not be parsed)
BatchFail(w) ==
    /\ runners[w].pc = "fetch"
    /\ \E r \in {[runners[w] EXCEPT !.retries = @ + 1, !.state.retryCount = @ + 1]} :
          IF r.retries >= MAX_RETRIES
          THEN /\ taskState' = <<[r.state EXCEPT !.status = "error",
                                                 !.error = "failed"]>>
               /\ runners' = [runners EXCEPT ![w] = IdleRunner]
          ELSE /\ runners' = [runners EXCEPT ![w] = [r EXCEPT !.pc = "retryDelay"]]
               /\ UNCHANGED taskState
    /\ UNCHANGED <<batchCache, currentTaskController, starts, lastCall>>
    /\ UNCHANGED <<queueVars, panelVars>>

\* the retry delay is over: the batch is tried again
RetryDelayElapsed(w) ==
    /\ runners[w].pc = "retryDelay"
    /\ runners' = [runners EXCEPT ![w].pc = "fetch"]
    /\ UNCHANGED <<taskState, batchCache, currentTaskController, starts, lastCall>>
    /\ UNCHANGED <<queueVars, panelVars>>

\* the page is closed or reloaded: everything but storage is lost
Crash ==
    /\ runners' = [w \in Runners |-> IdleRunner]
    /\ currentTaskController' = "null"
    /\ lastCall' = NoCall
    /\ reclassify' = [IdleReclassify EXCEPT !.runs = reclassify.runs]
    /\ preview' = NoPreview
    /\ UNCHANGED <<taskState, batchCache, starts>>
    /\ UNCHANGED queueVars

RunnerStep(w) ==
    \/ BatchFail(w)
    \/ BatchOk(w)
    \/ RetryDelayElapsed(w)

\* the batch task: its callers, its activations, and reloads of the page
NextBatch ==
    \/ \E count \in NoteCounts : StartTask(count)
    \/ \E count \in NoteCounts : RetryTask(count)
    \/ PauseTask
    \/ ClearTask
    \/ \E w \in Runners : RunnerStep(w)
    \/ Crash

\* the note list of the batch task is given by its count alone
InitBatch == Init /\ \A n \in NoteIds : notes[n] = "text"

SpecBatch == InitBatch /\ [][NextBatch]_vars

\* ------------------------------------------------- splitCluster on its own
\* embeddings of the members of a cluster to split
SplitVectors == { <<1, 0>>, <<2, 1>>, <<1, 1>>, <<1, 2>>, <<0, 1>> }

\* a store with one cluster of the notes 1..k, the note n having the
\* embedding f[n], and the centroid their mean
SplitStore(k, f) ==
    [embeddings |-> [n \in 1..k |-> createNoteEmbedding(n, f[n])],
     clusters |-> <<createCluster(1, computeCentroid([n \in 1..k |-> Emb(f[n])]),
                                  [n \in 1..k |-> n])>>,
     nextClusterId |-> 2]

\* splitCluster(cluster) for the i-th cluster of the store
SplitCluster(i) ==
    /\ i \in 1..Len(store.clusters)
    /\ store' = splitCluster(store, store.clusters[i])
    /\ UNCHANGED <<notes, queue, nextTaskId, clock, isProcessing, workers,
                   lastClassified>>
    /\ UNCHANGED <<batchVars, panelVars>>

NextSplit == \E i \in 1..Len(store.clusters) : SplitCluster(i)

InitSplit ==
    /\ \E k \in 4..MaxSplit : \E f \in [1..k -> SplitVectors] :
          store = SplitStore(k, f)
    /\ notes = [n \in NoteIds |-> "text"]
    /\ queue = <<>>
    /\ nextTaskId = 1
    /\ clock = 0
    /\ isProcessing = FALSE
    /\ workers = [w \in Workers |-> IdleWorker]
    /\ lastClassified = NoneClassified
    /\ taskState = <<>>
    /\ batchCache = <<>>
    /\ currentTaskController = "null"
    /\ runners = [w \in Runners |-> IdleRunner]
    /\ starts = 0
    /\ lastCall = NoCall
    /\ reclassify = IdleReclassify
    /\ preview = NoPreview

SpecSplit == InitSplit /\ [][NextSplit]_vars

\* ------------------------------------------- the queue after a restart
\* the queue as storage holds it when the page is loaded again: task i has
\* the status statuses[i]; a task the worker was handling when the page
\* went away is still processing
RestartQueue(statuses) ==
    [i \in 1..Len(statuses) |->
        [id |-> i,
         noteId |-> ((i - 1) % MaxNotes) + 1,
         status |-> statuses[i],
         error |-> "null",
         completedAt |-> IF statuses[i] = "done" THEN i ELSE 0]]

\* initClassifier has run: the module state is fresh, nothing was written
InitRestart ==
    /\ \E k \in 1..(MaxTasks - 1) :
       \E statuses \in [1..k -> {"pending", "processing", "done"}] :
          /\ Cardinality({ i \in 1..k : statuses[i] = "processing" }) <= 1
          /\ \A i, j \in 1..k :
                (i < j /\ statuses[i] = "pending" /\ statuses[j] = "pending")
                   => (i - 1) % MaxNotes # (j - 1) % MaxNotes
          /\ queue = RestartQueue(statuses)
          /\ nextTaskId = k + 1
          /\ clock = k
    /\ notes \in [NoteIds -> {"text", "empty"}]
    /\ store = EmptyStore
    /\ isProcessing = FALSE
    /\ workers = [w \in Workers |-> IdleWorker]
    /\ lastClassified = NoneClassified
    /\ taskState = <<>>
    /\ batchCache = <<>>
    /\ currentTaskController = "null"
    /\ runners = [w \in Runners |-> IdleRunner]
    /\ starts = 0
    /\ lastCall = NoCall
    /\ reclassify = IdleReclassify
    /\ preview = NoPreview

\* after the restart the queue is triggered (processQueue is called when it
\* has a pending task), every embedding call returns, every delay elapses
SpecRestart ==
    /\ InitRestart /\ [][Next]_vars
    /\ \A w \in Workers : WF_vars(WorkerStep(w))
    /\ WF_vars(ProcessQueue)

\* ----------------------------------- the worker on a queue with a history
MaxOver == 2        \* completed tasks added since the queue was last pruned
MaxOpen == 1        \* tasks left processing by a reload, and pending tasks

\* a queue as the worker leaves and finds it: the tasks left processing by a
\* reload in front, then k completed tasks as the last pruning ordered them
\* (newest first), then m tasks completed since, then the pending tasks
PruneQueue(k, m, stale, pend) ==
    [i \in 1..(stale + k + m + pend) |->
        [id |-> i,
         noteId |-> (i % MaxNotes) + 1,
         status |-> IF i <= stale THEN "processing"
                    ELSE IF i > stale + k + m THEN "pending"
                    ELSE IF i % 3 = 0 THEN "error" ELSE "done",
         error |-> IF i > stale /\ i <= stale + k + m /\ i % 3 = 0
                   THEN "embedding" ELSE "null",
         completedAt |-> IF i <= stale \/ i > stale + k + m THEN 0
                         ELSE IF i <= stale + k THEN stale + k + 1 - i
                         ELSE i - stale]]

NextPrune ==
    \/ ProcessQueue
    \/ \E w \in Workers : WorkerStep(w)

InitPrune ==
    /\ \E k \in (KEEP_COMPLETED - MaxOver)..KEEP_COMPLETED : \E m \in 0..MaxOver :
       \E stale \in 0..MaxOpen : \E pend \in 0..MaxOpen :
          /\ queue = PruneQueue(k, m, stale, pend)
          /\ nextTaskId = stale + k + m + pend + 1
          /\ clock = k + m
    /\ notes \in [NoteIds -> {"text", "empty"}]
    /\ store = EmptyStore
    /\ isProcessing = FALSE
    /\ workers = [w \in Workers |-> IdleWorker]
    /\ lastClassified = NoneClassified
    /\ taskState = <<>>
    /\ batchCache = <<>>
    /\ currentTaskController = "null"
    /\ runners = [w \in Runners |-> IdleRunner]
    /\ starts = 0
    /\ lastCall = NoCall
    /\ reclassify = IdleReclassify
    /\ preview = NoPreview

SpecPrune == InitPrune /\ [][NextPrune]_vars

\* ------------------------------------- the preview of a completed batch task
MaxItems == 3       \* classified notes in the cached batch results

\* the tags the model may have given a note
ItemTags == { <<>>, <<"A">>, <<"B">>, <<"A", "B">>, <<"A", "A">>, <<CatchAll>> }

\* the cached results of two batches holding the given items
TwoBatches(items) ==
    << SubSeq(items, 1, (Len(items) + 1) \div 2),
       SubSeq(items, (Len(items) + 1) \div 2 + 1, Len(items)) >>

\* the panel opens on a completed task (or the task reports completion):
\* the cached batch results are grouped into the preview
ShowPreview ==
    /\ getTaskState(taskState).status = "completed"
    /\ Len(batchCache) > 0
    /\ preview' = <<mergeAndGroupResults(batchCache)>>
    /\ UNCHANGED <<queueVars, batchVars, reclassify>>

NextGroup == ShowPreview

InitGroup ==
    /\ \E n \in 1..MaxItems :
       \E items \in [1..n -> [id : 1..MaxItems, tags : ItemTags]] :
          /\ batchCache = TwoBatches(items)
          /\ taskState = <<[createInitialState EXCEPT
                               !.status = "completed",
                               !.totalNotes = n, !.processedNotes = n,
                               !.currentBatch = 1, !.totalBatches = 2,
                               !.batchResults = TwoBatches(items)]>>
    /\ preview = NoPreview
    /\ notes = [n \in NoteIds |-> "text"]
    /\ store = EmptyStore
    /\ queue = <<>>
    /\ nextTaskId = 1
    /\ clock = 0
    /\ isProcessing = FALSE
    /\ workers = [w \in Workers |-> IdleWorker]
    /\ lastClassified = NoneClassified
    /\ currentTaskController = "null"
    /\ runners = [w \in Runners |-> IdleRunner]
    /\ starts = 1
    /\ lastCall = NoCall
    /\ reclassify = IdleReclassify

SpecGroup == InitGroup /\ [][NextGroup]_vars

\* ------------------------------- classifyNote and the merge check on a store
MaxEngineNotes == 3     \* notes of the store handed to the engine

\* embeddings of the notes: (1,0,0,0) and (7,1,1,7) have cosine exactly 0.7
EngineVectors == { <<1, 0, 0, 0>>, <<7, 1, 1, 7>>, <<1, 0, 0, 1>>, <<0, 0, 0, 1>> }

\* the ways of putting the notes 1..k into clusters 1..c, the clusters
\* numbered in the order of their first note
Partitions(k) ==
    { g \in [1..k -> 1..k] :
        g[1] = 1 /\ \A n \in 2..k : \E m \in 1..(n - 1) : g[n] <= g[m] + 1 }

\* a store of the notes 1..k: the note n has the embedding f[n] (none when n
\* is in bare) and is a member of the cluster g[n]; each centroid is the mean
\* of the stored embeddings of the members
EngineStore(k, f, g, bare) ==
    LET embeddings == SelectSeq([n \in 1..k |-> createNoteEmbedding(n, f[n])],
                                LAMBDA e : e.noteId \notin bare)
        members(c) == SelectSeq([n \in 1..k |-> n], LAMBDA n : g[n] = c)
        count == Cardinality({ g[n] : n \in 1..k })
    IN [embeddings |-> embeddings,
        clusters |-> [c \in 1..count |->
            createCluster(c, computeCentroid(
                                 VectorsOf(MemberEmbeddings(embeddings, members(c)))),
                          members(c))],
        nextClusterId |-> count + 1]

\* classifyNote for one further note, once
ClassifyDrawn(vec) ==
    /\ clock = 0
    /\ clock' = 1
    /\ store' = classifyNote(store, MaxEngineNotes + 1, vec)
    /\ UNCHANGED <<notes, queue, nextTaskId, isProcessing, workers, lastClassified>>
    /\ UNCHANGED <<batchVars, panelVars>>

\* checkAndMergeClusters()
MergeCheck ==
    /\ store' = checkAndMergeClusters(store)
    /\ UNCHANGED <<notes, queue, nextTaskId, clock, isProcessing, workers,
                   lastClassified>>
    /\ UNCHANGED <<batchVars, panelVars>>

NextEngine ==
    \/ \E vec \in EngineVectors : ClassifyDrawn(vec)
    \/ MergeCheck

InitEngine ==
    /\ \E k \in 1..MaxEngineNotes : \E f \in [1..k -> EngineVectors] :
       \E g \in Partitions(k) : \E bare \in {{}, {1}} :
          store = EngineStore(k, f, g, bare)
    /\ notes = [n \in NoteIds |-> "text"]
    /\ queue = <<>>
    /\ nextTaskId = 1
    /\ clock = 0
    /\ isProcessing = FALSE
    /\ workers = [w \in Workers |-> IdleWorker]
    /\ lastClassified = NoneClassified
    /\ taskState = <<>>
    /\ batchCache = <<>>
    /\ currentTaskController = "null"
    /\ runners = [w \in Runners |-> IdleRunner]
    /\ starts = 0
    /\ lastCall = NoCall
    /\ reclassify = IdleReclassify
    /\ preview = NoPreview

SpecEngine == InitEngine /\ [][NextEngine]_vars

\* --------------------------- classifyNote for one note after the other
MaxExtra == 10      \* notes classified beyond MAX_CLUSTER_SIZE
MaxFree == 2        \* leading notes whose embedding is drawn freely

\* embeddings of pairwise similarity >= 0.7 (the least is 1/sqrt(2))
GrowVectors == { <<1, 0>>, <<2, 1>>, <<1, 1>> }

\* classifyNote for the next note; from note MaxFree + 1 on the embedding is
\* that of the note before
ClassifyNext(vec) ==
    /\ Len(store.embeddings) < MAX_CLUSTER_SIZE + MaxExtra
    /\ Len(store.embeddings) >= MaxFree =>
          vec = store.embeddings[Len(store.embeddings)].embedding.num
    /\ store' = classifyNote(store, Len(store.embeddings) + 1, vec)
    /\ UNCHANGED <<notes, queue, nextTaskId, clock, isProcessing, workers,
                   lastClassified>>
    /\ UNCHANGED <<batchVars, panelVars>>

NextGrow == \E vec \in GrowVectors : ClassifyNext(vec)

InitGrow ==
    /\ store = EmptyStore
    /\ notes = [n \in NoteIds |-> "text"]
    /\ queue = <<>>
    /\ nextTaskId = 1
    /\ clock = 0
    /\ isProcessing = FALSE
    /\ workers = [w \in Workers |-> IdleWorker]
    /\ lastClassified = NoneClassified
    /\ taskState = <<>>
    /\ batchCache = <<>>
    /\ currentTaskController = "null"
    /\ runners = [w \in Runners |-> IdleRunner]
    /\ starts = 0
    /\ lastCall = NoCall
    /\ reclassify = IdleReclassify
    /\ preview = NoPreview

SpecGrow == InitGrow /\ [][NextGrow]_vars

\* the batch task driven by startClassificationTask, pauseTask and retryTask
\* alone
NextTask ==
    \/ \E count \in NoteCounts : StartTask(count)
    \/ \E count \in NoteCounts : RetryTask(count)
    \/ PauseTask
    \/ \E w \in Runners : RunnerStep(w)

SpecTask == InitBatch /\ [][NextTask]_vars

\* every call of the model returns or fails, every retry delay elapses
SpecTaskFair == SpecTask /\ \A w \in Runners : WF_vars(RunnerStep(w))

\* ------------------------------------------------------------------ claims
TaskIds == 1..MaxTasks
PendingOf(q) == { i \in 1..Len(q) : q[i].status = "pending" }
HasPending(q, n) == \E i \in PendingOf(q) : q[i].noteId = n
NoPending(q) == PendingOf(q) = {}
StatusOf(q, id) ==
    IF \E i \in 1..Len(q) : q[i].id = id
    THEN q[CHOOSE i \in 1..Len(q) : q[i].id = id].status
    ELSE "none"
Terminal(id) == StatusOf(queue, id) \in {"done", "error"}
ActiveWorkers == { w \in Workers : workers[w].pc # "idle" }

\* number of times note n occurs in the noteIds of all clusters together
Occurrences(clusters, n) ==
    SumSeq([i \in 1..Len(clusters) |-> Count(clusters[i].noteIds, n)])
EmbeddingCount(embeddings, n) ==
    Cardinality({ i \in 1..Len(embeddings) : embeddings[i].noteId = n })

\* C1: in every reachable state the queue holds at most one pending task
\* per noteId, and an enqueueNote for a noteId that already has a pending
\* task leaves the queue unchanged.
C1_OnePendingPerNote ==
    /\ [](\A n \in NoteIds :
            Cardinality({ i \in PendingOf(queue) : queue[i].noteId = n }) <= 1)
    /\ [][\A n \in NoteIds :
            (EnqueueNote(n) /\ HasPending(queue, n)) => queue' = queue]_vars

\* C1 witness: an enqueueNote call has been absorbed (fewer tasks in the
\* queue than ids handed out) while a task is pending.
C1_Witness ==
    /\ Len(queue) < nextTaskId - 1
    /\ ~NoPending(queue)

\* C2: classifying the same note twice in a row, nothing else changing the
\* stores in between, leaves exactly one embedding record for the note and
\* exactly one occurrence of its id in the cluster memberships.
C2_ClassifyTwiceIdempotent ==
    lastClassified.times = 2 =>
        /\ EmbeddingCount(store.embeddings, lastClassified.noteId) = 1
        /\ Occurrences(store.clusters, lastClassified.noteId) = 1

\* C3: after every operation that changes a cluster's membership, that
\* cluster's stored centroid is the component-wise mean of the stored
\* embeddings of exactly the notes in its noteIds.
MembershipChanged(old, c) ==
    \A i \in 1..Len(old) : old[i].id = c.id => old[i].noteIds # c.noteIds
CentroidIsMean(embeddings, c) ==
    c.centroid = computeCentroid(VectorsOf(MemberEmbeddings(embeddings, c.noteIds)))
C3_CentroidIsMeanAfterChange ==
    [][\A i \in 1..Len(store'.clusters) :
          MembershipChanged(store.clusters, store'.clusters[i])
              => CentroidIsMean(store'.embeddings, store'.clusters[i])]_vars

\* C6: a task's status moves only pending -> processing -> done | error;
\* a task that is done or error keeps that status for as long as it is in
\* the queue.
StatusEdge(a, b) ==
    \/ a = b
    \/ a = "pending" /\ b = "processing"
    \/ a = "processing" /\ b \in {"done", "error"}
C6_TaskStateMachine ==
    [][\A id \in TaskIds :
          /\ StatusOf(queue, id) = "none" =>
                StatusOf(queue', id) \in {"none", "pending", "processing"}
          /\ StatusOf(queue, id) # "none" =>
                \/ StatusOf(queue', id) = "none"
                \/ StatusEdge(StatusOf(queue, id), StatusOf(queue', id))]_vars

\* C6 witness: one task ended done and another ended error.
C6_Witness ==
    \E a, b \in TaskIds :
        StatusOf(queue, a) = "done" /\ StatusOf(queue, b) = "error"

\* C7: at most one worker loop is active at any time, so at most one task
\* is processing and at most one classifyNote is in flight.
C7_SingleWorker ==
    /\ Cardinality(ActiveWorkers) <= 1
    /\ Cardinality({ i \in 1..Len(queue) : queue[i].status = "processing" }) <= 1
    /\ Cardinality({ w \in Workers : workers[w].pc \in {"embedding", "rejected"} }) <= 1
    /\ isProcessing <=> ActiveWorkers # {}

\* C7 witness: a task was enqueued while the worker loop was busy with
\* another one.
C7_Witness ==
    /\ \E w \in Workers : workers[w].pc = "embedding"
    /\ ~NoPending(queue)

\* C8: whenever the worker marks a task processing, that task is the
\* oldest pending one: no task left pending was enqueued before it.
Picked(id) ==
    /\ StatusOf(queue', id) = "processing"
    /\ StatusOf(queue, id) \in {"none", "pending"}
C8_FifoOrder ==
    [][\A id \in TaskIds :
          Picked(id) => \A i \in PendingOf(queue') : queue'[i].id > id]_vars

\* C8 witness: with completed tasks in the queue, the worker has picked a
\* task while a newer one, enqueued during the run, still waits.
C8_Witness ==
    /\ \E i \in 1..Len(queue) : queue[i].status \in {"done", "error"}
    /\ \E i, j \in 1..Len(queue) :
          /\ queue[i].status = "processing"
          /\ queue[j].status = "pending"
          /\ queue[i].id < queue[j].id

\* C9: when classifyNote fails for a task the worker records the error
\* with its message and goes on: the run does not end while a task is
\* pending, and every task pending at the moment of the failure reaches
\* done or error.
FailedNow(w) ==
    /\ workers[w].pc = "delay"
    /\ StatusOf(queue, workers[w].taskId) = "error"
C9_FailureDoesNotStopQueue ==
    /\ [][\A w \in Workers :
            (workers[w].pc \in {"embedding", "rejected"}
               /\ StatusOf(queue', workers[w].taskId) = "error")
            => /\ workers'[w].pc = "delay"
               /\ isProcessing'
               /\ \E i \in 1..Len(queue') :
                     /\ queue'[i].id = workers[w].taskId
                     /\ queue'[i].error \in {"invalid", "embedding"}]_vars
    /\ \A id \in TaskIds :
          ((\E w \in Workers : FailedNow(w)) /\ StatusOf(queue, id) = "pending")
              ~> Terminal(id)

\* C9 witness: a task has just failed while another task is pending.
C9_Witness ==
    /\ \E w \in Workers : FailedNow(w)
    /\ ~NoPending(queue)

\* C10: every task added by enqueueNote eventually reaches done or error,
\* also when it is added while a worker loop is running, and when a worker
\* run ends no task is pending.
C10_EveryTaskCompletes ==
    /\ \A id \in TaskIds : (StatusOf(queue, id) = "pending") ~> Terminal(id)
    /\ [](~isProcessing => NoPending(queue))

\* C10 witness: the run has ended with every task completed, one of which
\* had been enqueued while the worker was busy with an earlier one.
C10_Witness ==
    /\ ~isProcessing
    /\ Len(queue) >= 2
    /\ \A i \in 1..Len(queue) : queue[i].status \in {"done", "error"}
    /\ \E i, j \in 1..Len(queue) :
          queue[i].id < queue[j].id /\ queue[j].noteId = queue[i].noteId


\* the persisted task state as the code reads it
Persisted == getTaskState(taskState)

\* the activation that a step has started, at loop index i
StartedAt(i) ==
    \E w \in Runners : /\ runners[w].pc = "idle"
                       /\ runners'[w].pc = "fetch"
                       /\ runners'[w].i = i

\* the cached results of the batches below index i are unchanged by the step
KeepsResultsBelow(i) ==
    /\ Len(batchCache') >= i
    /\ \A j \in 1..i : batchCache'[j] = batchCache[j]

\* C4: when the batch task has gone to error at batch i after batches
\* 0..i-1 succeeded, retryTask called with the same notes continues at
\* batch i (it processes only batches i..n-1) and the results of batches
\* 0..i-1 stay as they were before the failure.
C4_RetryContinuesAtFailedBatch ==
    [][\A count \in NoteCounts :
          ( /\ RetryTask(count)
            /\ Persisted.status = "error"
            /\ Persisted.totalNotes = count
            /\ Len(batchCache) = Persisted.currentBatch
            /\ ActiveRunners = {} )
          => /\ StartedAt(Persisted.currentBatch)
             /\ KeepsResultsBelow(Persisted.currentBatch)]_vars

\* C5: when the page was reloaded while the persisted status was running
\* (no activation is left), a later startClassificationTask or retryTask
\* with the same notes resumes at the saved currentBatch and keeps the
\* persisted results of the earlier batches.
C5_ResumeAfterCrash ==
    [][\A count \in NoteCounts :
          ( /\ StartTask(count) \/ RetryTask(count)
            /\ Persisted.status = "running"
            /\ Persisted.totalNotes = count
            /\ ActiveRunners = {} )
          => /\ StartedAt(Persisted.currentBatch)
             /\ KeepsResultsBelow(Persisted.currentBatch)]_vars


\* C11: the clusters partition the classified notes: no cluster's noteIds
\* holds an id twice and no id is in the noteIds of two clusters, in every
\* state reached by classifications and clean-ups run one after another.
C11_ClustersPartitionNotes ==
    /\ \A i \in 1..Len(store.clusters) : \A n \in NoteIds :
          Count(store.clusters[i].noteIds, n) <= 1
    /\ \A i, j \in 1..Len(store.clusters) :
          i # j => Range(store.clusters[i].noteIds)
                      \cap Range(store.clusters[j].noteIds) = {}

\* the sequence s without the entries that F maps to n
Without(s, F(_), n) == SelectSeq(s, LAMBDA x : F(x) # n)

\* C12: after cleanupNoteClassification(n) no embedding record of n exists
\* and no cluster's noteIds contains n, whatever the store was before; the
\* embeddings and memberships of all other notes are unchanged.
C12_CleanupRemovesNote ==
    [][\A n \in NoteIds :
          DeleteNote(n) =>
             /\ EmbeddingCount(store'.embeddings, n) = 0
             /\ Occurrences(store'.clusters, n) = 0
             /\ Without(store'.embeddings, LAMBDA e : e.noteId, n)
                   = Without(store.embeddings, LAMBDA e : e.noteId, n)
             /\ Len(store'.clusters) = Len(store.clusters)
             /\ \A i \in 1..Len(store.clusters) :
                   Without(store'.clusters[i].noteIds, LAMBDA x : x, n)
                      = Without(store.clusters[i].noteIds, LAMBDA x : x, n)]_vars

\* C13: a cluster emptied by cleanupNoteClassification is gone from the
\* store no later than the next classification: after a classification the
\* store holds no cluster with empty noteIds.
C13_NoEmptyClusterAfterClassify ==
    [][(\E w \in Workers : \E vec \in Vectors : EmbeddingOk(w, vec))
          => \A i \in 1..Len(store'.clusters) :
                store'.clusters[i].noteIds # <<>>]_vars


\* the persisted task status after the step
StatusAfter == getTaskState(taskState').status

\* the edges of the task state machine as the specification lists them
ListedEdges ==
    { <<"idle", "running">>, <<"running", "paused">>,
      <<"running", "completed">>, <<"running", "error">>,
      <<"paused", "running">>, <<"error", "running">> }

\* C14 as stated: the persisted status changes only along idle -> running,
\* running -> paused | completed | error, paused -> running and
\* error -> running.
C14_StatusEdgesAsStated ==
    [][StatusAfter # Persisted.status
          => <<Persisted.status, StatusAfter>> \in ListedEdges]_vars

\* C14: through startClassificationTask, pauseTask and retryTask the
\* persisted status changes only along the listed edges and along
\* completed -> running: a start on a completed task begins a new task.
C14_StatusEdges ==
    [][StatusAfter # Persisted.status
          => <<Persisted.status, StatusAfter>>
                \in ListedEdges \cup { <<"completed", "running">> }]_vars

\* C14 witness: a second run was started and has ended
C14_Witness ==
    /\ starts >= 2
    /\ Persisted.status \in {"paused", "completed", "error"}
    /\ ActiveRunners = {}


\* C15: a batch that keeps failing is attempted until the retry counter of
\* the run reaches MAX_RETRIES and no longer; the failure that exhausts the
\* retries puts the task into status error with the message recorded, and
\* leaves the persisted results of the batches completed before unchanged;
\* an earlier failure leaves the task running and the batch is tried again.
C15_RetriesThenError ==
    /\ [](\A w \in Runners : runners[w].retries < MAX_RETRIES)
    /\ [][\A w \in Runners :
             BatchFail(w) =>
                IF runners[w].retries + 1 = MAX_RETRIES
                THEN /\ StatusAfter = "error"
                     /\ getTaskState(taskState').error # "null"
                     /\ getTaskState(taskState').batchResults = Persisted.batchResults
                     /\ batchCache' = batchCache
                     /\ runners'[w].pc = "idle"
                ELSE /\ taskState' = taskState
                     /\ batchCache' = batchCache
                     /\ runners'[w].pc = "retryDelay"
                     /\ runners'[w].i = runners[w].i]_vars

\* C15 witness: the second batch failed for good, the result of the first
\* is still there
C15_Witness ==
    /\ Persisted.status = "error"
    /\ Persisted.currentBatch = 1
    /\ Persisted.retryCount >= MAX_RETRIES
    /\ Len(batchCache) = 1


\* the sizes of the first k batches, summed
SizeOfFirst(batches, k) == SumSeq(SubSeq(batches, 1, k))

\* the step starts a new task (not a continuation of the paused one)
FreshStart == starts' # starts /\ lastCall'.outcome = "fresh"

\* C16: in the persisted task state processedNotes never decreases during
\* a task, and when a batch has just completed it equals the sum of the
\* sizes of the batches processed so far (those below the next batch to
\* process); this holds across pause and resume.
C16_ProcessedNotesIsSumOfBatches ==
    [][/\ ~FreshStart =>
             getTaskState(taskState').processedNotes >= Persisted.processedNotes
       /\ \A w \in Runners :
             BatchOk(w) =>
                getTaskState(taskState').processedNotes
                   = SizeOfFirst(runners[w].batches, runners[w].i + 1)]_vars


\* C17: startClassificationTask on a paused task whose totalNotes equals
\* the number of valid notes passed continues at the saved currentBatch
\* with the cached results kept; in every other case in which it starts,
\* it starts at batch 0 with the cache of batch results cleared.
C17_ResumeOrFreshStart ==
    [][\A count \in NoteCounts :
          (StartTask(count) /\ starts' # starts) =>
             IF Persisted.status = "paused" /\ Persisted.totalNotes = count
             THEN /\ StartedAt(Persisted.currentBatch)
                  /\ batchCache' = batchCache
                  /\ getTaskState(taskState').processedNotes = Persisted.processedNotes
                  /\ getTaskState(taskState').batchResults = Persisted.batchResults
             ELSE /\ StartedAt(0)
                  /\ batchCache' = <<>>
                  /\ getTaskState(taskState').processedNotes = 0
                  /\ getTaskState(taskState').batchResults = <<>>]_vars

\* C17 witness: a paused task with a cached result was continued
C17_Witness ==
    /\ lastCall.op = "start"
    /\ lastCall.outcome = "resumed"
    /\ Persisted.status = "running"
    /\ Len(batchCache) >= 1

\* C18: within one run the batches are started in increasing index order,
\* and the next batch is started only when the result of the last one is in
\* the persisted cache.
C18_BatchesInOrder ==
    [][\A w \in Runners :
          ( /\ runners[w].pc # "idle"
            /\ runners'[w].pc # "idle"
            /\ runners'[w].i # runners[w].i )
          => /\ runners'[w].i = runners[w].i + 1
             /\ Len(batchCache') > runners[w].i
             /\ batchCache'[runners[w].i + 1]
                   = BatchResult(runners[w].i, runners[w].run)]_vars

\* C18 witness: the second batch of a run is in flight
C18_Witness ==
    \E w \in Runners : /\ runners[w].pc = "fetch"
                       /\ runners[w].i = 1
                       /\ runners[w].state.processedNotes = BATCH_SIZE

C20_SplitKeepsMembers ==
    [][\A i \in 1..Len(store.clusters) :
          (SplitCluster(i) /\ store' # store) =>
             /\ Len(store'.clusters) = Len(store.clusters) + 1
             /\ store'.clusters[i].id = store.clusters[i].id
             /\ \E a \in {store'.clusters[i].noteIds} :
                \E b \in {store'.clusters[Len(store'.clusters)].noteIds} :
                \E pre \in {store.clusters[i].noteIds} :
                   /\ Range(a) \cap Range(b) = {}
                   /\ Range(a) \cup Range(b) = Range(pre)
                   /\ Len(a) + Len(b) = Len(pre)]_vars

\* C20 witness: a cluster of at least 4 members of distinct embeddings was
\* split into two clusters with members
C20_Witness ==
    /\ Len(store.clusters) = 2
    /\ Len(store.embeddings) >= 4
    /\ \A m, n \in 1..Len(store.embeddings) :
          m # n => store.embeddings[m].embedding # store.embeddings[n].embedding
    /\ \A i \in 1..2 : store.clusters[i].noteIds # <<>>

\* the mean of the stored embeddings of a set of notes
MeanOfNotes(st, ids) ==
    computeCentroid(VectorsOf(SelectSeq(st.embeddings, LAMBDA e : e.noteId \in ids)))

CentroidSim(clusters, p) ==
    cosineSimilarity(clusters[p[1]].centroid, clusters[p[2]].centroid)

\* the pairs of clusters the merge check compares
ComparedPairs(clusters) ==
    { p \in IndexPairs(Len(clusters)) :
        /\ Len(clusters[p[1]].centroid.num) > 0
        /\ Len(clusters[p[2]].centroid.num) > 0 }

\* a merge has taken place: fewer clusters than cluster ids handed out
SomeMerged == Len(store.clusters) < store.nextClusterId - 1

\* C21: when checkAndMergeClusters merges two clusters, the first of the two
\* survives under its id with the union of both noteIds and with the mean of
\* the stored embeddings of these notes as centroid, the second cluster is no
\* longer in the store, and every other cluster is as it was.
C21_MergeUnitesTwoClusters ==
    [][(MergeCheck /\ store' # store) =>
         \E pre \in {store.clusters} : \E post \in {store'.clusters} :
         \E p \in IndexPairs(Len(pre)) :
            /\ Len(post) = Len(pre) - 1
            /\ post[p[1]].id = pre[p[1]].id
            /\ Range(post[p[1]].noteIds) =
                  Range(pre[p[1]].noteIds) \cup Range(pre[p[2]].noteIds)
            /\ post[p[1]].centroid = MeanOfNotes(store, Range(post[p[1]].noteIds))
            /\ \A k \in 1..Len(post) : post[k].id # pre[p[2]].id
            /\ \A k \in 1..Len(pre) :
                  k \notin {p[1], p[2]} => post[IF k < p[2] THEN k ELSE k - 1] = pre[k]
            /\ store'.embeddings = store.embeddings]_vars

\* C21 witness: two clusters were merged next to a cluster that stayed
C21_Witness ==
    /\ clock = 0
    /\ SomeMerged
    /\ Len(store.clusters) >= 2
    /\ \E i \in 1..Len(store.clusters) : Len(store.clusters[i].noteIds) >= 2

\* C30: one call of checkAndMergeClusters removes at most one cluster; the
\* two clusters it merges have non-empty centroids whose similarity is at
\* least that of every other pair with non-empty centroids, and at least
\* MERGE_THRESHOLD (so nothing is merged when the highest similarity is
\* below 0.85).
C30_AtMostOneMerge ==
    [][(MergeCheck /\ store' # store) =>
         \E pre \in {store.clusters} : \E post \in {store'.clusters} :
         \E p \in ComparedPairs(pre) :
            /\ Len(post) = Len(pre) - 1
            /\ \A k \in 1..Len(post) : post[k].id # pre[p[2]].id
            /\ Range(pre[p[2]].noteIds) \subseteq Range(post[p[1]].noteIds)
            /\ \A q \in ComparedPairs(pre) :
                  CosGE(CentroidSim(pre, p), CentroidSim(pre, q))
            /\ CosGE(CentroidSim(pre, p), MERGE_THRESHOLD)]_vars

\* C30 witness: after one merge the most similar clusters left are similar,
\* but less than MERGE_THRESHOLD, and a further call merges nothing
C30_Witness ==
    /\ clock = 0
    /\ Len(store.clusters) = store.nextClusterId - 2
    /\ \E p \in ComparedPairs(store.clusters) :
          CosGE(CentroidSim(store.clusters, p), SIMILARITY_THRESHOLD)
    /\ checkAndMergeClusters(store) = store

\* the note classifyNote is called for in SpecEngine
NewNote == MaxEngineNotes + 1

\* the clusters a note of this embedding can be compared with
Comparable(clusters) == { i \in 1..Len(clusters) : Len(clusters[i].centroid.num) > 0 }

\* the first of the clusters whose centroid is most similar to the vector
\* (0 when no cluster has a centroid)
MostSimilar(clusters, vec) ==
    LET sim(i) == cosineSimilarity(Emb(vec), clusters[i].centroid)
    IN IF Comparable(clusters) = {} THEN 0
       ELSE CHOOSE i \in Comparable(clusters) :
               \A j \in Comparable(clusters) :
                  /\ CosGE(sim(i), sim(j))
                  /\ (j < i => CosLT(sim(j), sim(i)))

C23_SplitLeavesTwoClusters ==
    Len(store.embeddings) = MAX_CLUSTER_SIZE + MaxExtra =>
       /\ Len(store.clusters) = 2
       /\ Len(store.clusters[1].noteIds) + Len(store.clusters[2].noteIds)
             = Len(store.embeddings)

\* C24: reclassifyAll called when no note has content returns the failure
\* { success: false, error } and leaves the clusters and the embeddings as
\* they were.
C24_ReclassifyNothingToDo ==
    [][(ReclassifyStart /\ Len(ValidNotes) = 0) =>
          /\ reclassify'.result.outcome = "failed"
          /\ reclassify'.pc = "idle"
          /\ store' = store]_vars

\* C24 witness: reclassifyAll has failed for want of a valid note while the
\* cluster store was not empty
C24_Witness ==
    /\ reclassify.result.outcome = "failed"
    /\ Len(ValidNotes) = 0
    /\ Len(store.clusters) > 0

\* C28: in every reachable state the embedding store holds at most one
\* record per noteId: classifyNote and reclassifyAll replace the record of a
\* note that has one.
C28_OneEmbeddingPerNote ==
    \A n \in NoteIds : EmbeddingCount(store.embeddings, n) <= 1

\* C28 witness: a note was classified by the worker and by a reclassifyAll
\* in which every embedding call succeeded, and has one record
C28_Witness ==
    \E n \in NoteIds :
       /\ notes[n] = "text"
       /\ \E i \in 1..Len(queue) : queue[i].noteId = n /\ queue[i].status = "done"
       /\ reclassify.result.outcome = "ok"
       /\ reclassify.result.stats.errors = 0
       /\ EmbeddingCount(store.embeddings, n) = 1

\* C25: (as stated) from the same store and for the same note and embedding,
\* the loop body of phase 2 of reclassifyAll and the join-or-create step of
\* classifyNote produce the same store, the split of a cluster grown beyond
\* MAX_CLUSTER_SIZE included.
C25_Phase2SameAsClassifyNote ==
    \A vec \in GrowVectors :
       \E noteId \in {Len(store.embeddings) + 1} :
       \E st \in {[store EXCEPT !.embeddings =
                      upsertEmbedding(@, createNoteEmbedding(noteId, vec))]} :
          ReclassifyNote(st, noteId) = JoinOrCreate(st, noteId, Emb(vec))

CompletedOf(q) == SelectSeq(q, LAMBDA t : t.status \in {"done", "error"})
OpenOf(q) == SelectSeq(q, LAMBDA t : t.status \in {"pending", "processing"})

\* C26: when the worker has drained the queue and pruned it, the queue holds
\* at most KEEP_COMPLETED (100) done/error tasks, no completed task that was
\* dropped was completed later than one that was kept, and every pending or
\* processing task is still there.
C26_PruneKeepsNewest ==
    [][(isProcessing' = FALSE) =>
          /\ Len(CompletedOf(queue')) = Min(Len(CompletedOf(queue)), KEEP_COMPLETED)
          /\ Range(queue') \subseteq Range(queue)
          /\ OpenOf(queue') = OpenOf(queue)
          /\ \A t \in Range(CompletedOf(queue)) \ Range(queue') :
             \A u \in Range(CompletedOf(queue')) : t.completedAt <= u.completedAt]_vars

\* C26 witness: the worker has pruned completed tasks from the queue and left
\* 100 of them next to a task that is still processing
C26_Witness ==
    /\ ~isProcessing
    /\ Len(CompletedOf(queue)) = KEEP_COMPLETED
    /\ Len(queue) < nextTaskId - 1
    /\ \E i \in 1..Len(queue) : queue[i].status = "processing"

\* the topics shown and the classified notes they were made from
Topics == preview[1]
Classified == Flatten(batchCache)
NotesOfTag(tag) ==
    { Classified[i].id : i \in { j \in 1..Len(Classified) : tag \in Range(Classified[j].tags) } }
AllTags == UNION { Range(Classified[i].tags) : i \in 1..Len(Classified) }
SmallTags == { tag \in AllTags : Cardinality(NotesOfTag(tag)) < MIN_TOPIC_SIZE \/ tag = CatchAll }

\* C27: in the result of mergeAndGroupResults every topic but the catch-all
\* has at least MIN_TOPIC_SIZE notes, no topic lists a note id twice, there
\* is at most one catch-all topic, and the catch-all holds exactly the notes
\* of the tag groups that have fewer than MIN_TOPIC_SIZE notes or carry the
\* catch-all tag.
C27_GroupingOfTopics ==
    preview # NoPreview =>
       /\ \A i \in 1..Len(Topics) :
             /\ Topics[i].title # CatchAll => Len(Topics[i].notes) >= MIN_TOPIC_SIZE
             /\ Topics[i].count = Len(Topics[i].notes)
             /\ Cardinality(Range(Topics[i].notes)) = Len(Topics[i].notes)
       /\ Cardinality({ i \in 1..Len(Topics) : Topics[i].title = CatchAll }) <= 1
       /\ IF UNION { NotesOfTag(tag) : tag \in SmallTags } = {}
          THEN \A i \in 1..Len(Topics) : Topics[i].title # CatchAll
          ELSE \E i \in 1..Len(Topics) :
                  /\ Topics[i].title = CatchAll
                  /\ Range(Topics[i].notes) = UNION { NotesOfTag(tag) : tag \in SmallTags }

\* C27 witness: a preview with a main topic and a catch-all topic that holds
\* a note of a small tag group and a note tagged with the catch-all tag
C27_Witness ==
    /\ preview # NoPreview
    /\ Len(Topics) = 2
    /\ Topics[1].title = "A"
    /\ Topics[2].title = CatchAll
    /\ Topics[2].count = 2
    /\ NotesOfTag("B") # {}
    /\ NotesOfTag(CatchAll) # {}

\* C29: every run of startClassificationTask that has passed its checks comes
\* to an end when every call of the model returns or fails, and at the moment
\* it ends the persisted status is paused, completed or error, not running.
C29_RunsSettle ==
    /\ \A w \in Runners : (runners[w].pc # "idle") ~> (runners[w].pc = "idle")
    /\ [][\A w \in Runners :
             (runners[w].pc # "idle" /\ runners'[w].pc = "idle") =>
                getTaskState(taskState').status \in {"paused", "completed", "error"}]_vars

\* C29 witness: all accepted starts have been made, no run is left, and the
\* last run ended in error after its retries
C29_Witness ==
    /\ starts = MaxStarts
    /\ ActiveRunners = {}
    /\ Persisted.status = "error"
    /\ Persisted.retryCount >= MAX_RETRIES

\* C31: when classifyNote fails because the note is missing or empty, or
\* because the embedding provider reports failure, the embeddings and the
\* clusters are as before the call, and the task is in the queue with status
\* error and a message.
C31_FailureLeavesStores ==
    [][\A w \in Workers :
          (EmbeddingFail(w) \/ ClassifyRejected(w)) =>
             /\ store' = store
             /\ \E i \in 1..Len(queue') :
                   /\ queue'[i].id = workers[w].taskId
                   /\ queue'[i].status = "error"
                   /\ queue'[i].error # "null"]_vars

\* C31 witness: the task of a deleted note has failed as invalid while the
\* stores hold the classification of another note
C31_Witness ==
    /\ \E i \in 1..Len(queue) :
          /\ queue[i].status = "error"
          /\ queue[i].error = "invalid"
          /\ notes[queue[i].noteId] = "absent"
    /\ Len(store.embeddings) > 0
    /\ Len(store.clusters) > 0

\* C32: (as stated) a task that storage holds as pending or processing when
\* the application starts again reaches done or error once the queue is
\* triggered.
C32_TasksRecover ==
    \A id \in TaskIds :
       (StatusOf(queue, id) \in {"pending", "processing"}) ~> Terminal(id)

\* C33: (as stated) whatever the order of the calls of
\* startClassificationTask, retryTask, pauseTask and clearTask, at most one
\* run of the batch loop is in flight, and a start or retry called while a
\* run is in flight is rejected and leaves the persisted task state and the
\* batch cache as they were.
C33_OneRunnerAtATime ==
    /\ [](Cardinality(ActiveRunners) <= 1)
    /\ [][(ActiveRunners # {} /\ lastCall' # lastCall /\ lastCall' # NoCall) =>
             /\ lastCall'.outcome \in {"no notes", "already running",
                                     "not retryable"}
             /\ taskState' = taskState
             /\ batchCache' = batchCache]_vars

\* C34: (as stated) once a run of reclassifyAll and the worker's classifyNote
\* executions have all finished, every note id occurs at most once across
\* the noteIds of all clusters.  Stated for the runs in which the worker
\* handles each note at most once, so that a second occurrence can only come
\* from the interleaving of the worker with the rebuild.
TasksOf(n) == Cardinality({ i \in 1..Len(queue) : queue[i].noteId = n })

BothFinished ==
    /\ reclassify.pc = "idle"
    /\ reclassify.result.outcome = "ok"
    /\ ~isProcessing
    /\ \A w \in Workers : workers[w].pc = "idle"

C34_RebuildAndWorkerNoDuplicate ==
    (BothFinished /\ \A n \in NoteIds : TasksOf(n) <= 1) =>
       \A n \in NoteIds : Occurrences(store.clusters, n) <= 1

\* C35: (as stated) when cleanupNoteClassification(noteId) has run for a
\* deleted note while its task was pending or while its classifyNote awaited
\* the embedding call, then once the queue is drained the stores hold no
\* embedding and no cluster membership for that note.
QueueDrained ==
    /\ ~isProcessing
    /\ \A w \in Workers : workers[w].pc = "idle"
    /\ \A i \in 1..Len(queue) : queue[i].status \in {"done", "error"}

C35_DeletedNoteLeavesNoTrace ==
    \A n \in NoteIds :
       (notes[n] = "absent" /\ QueueDrained) =>
          /\ EmbeddingCount(store.embeddings, n) = 0
          /\ Occurrences(store.clusters, n) = 0

\* C36: (as stated) in every persisted state of the batch task
\* processedNotes is at most totalNotes, whatever the sequence of start,
\* pause, resume and retry: each batch adds its size at most once.
C36_ProcessedAtMostTotal ==
    Persisted.processedNotes <= Persisted.totalNotes

\* C37: (as stated) every note in the batch results passed to
\* mergeAndGroupResults is listed in at least one topic of the result,
\* whatever tag list parseBatchResult gave it, the empty list included.
C37_EveryNoteInSomeTopic ==
    preview # NoPreview =>
       \A i \in 1..Len(Classified) :
          \E t \in 1..Len(Topics) : Classified[i].id \in Range(Topics[t].notes)

\* C38: (as stated) when reclassifyAll returns success, stats.completed is
\* the number of notes the rebuild placed into clusters, stats.errors the
\* number of valid notes left out of every cluster, stats.clusters the number
\* of clusters, and a note whose embedding could not be regenerated in this
\* run is in no cluster.  Stated for the runs the worker does not interfere
\* with: it is idle and has added no cluster when the batch call returns.
RebuildReturns ==
    /\ reclassify.pc = "embedding"
    /\ reclassify'.pc = "idle"
    /\ reclassify'.result.outcome = "ok"
    /\ ~isProcessing
    /\ store.clusters = <<>>

PlacedNotes(clusters, validNotes) ==
    { n \in Range(validNotes) : Occurrences(clusters, n) > 0 }

C38_StatsMatchClusters ==
    [][RebuildReturns =>
          /\ reclassify'.result.stats.completed
                = Cardinality(PlacedNotes(store'.clusters, reclassify.validNotes))
          /\ reclassify'.result.stats.errors
                = Cardinality(Range(reclassify.validNotes)
                                 \ PlacedNotes(store'.clusters, reclassify.validNotes))
          /\ reclassify'.result.stats.clusters = Len(store'.clusters)
          /\ \A results \in BatchEmbeddings(Len(reclassify.validNotes)) :
                ReclassifyFinish(results) =>
                   \A i \in 1..Len(results) :
                      results[i] = <<>> =>
                         Occurrences(store'.clusters, reclassify.validNotes[i]) = 0]_vars

=============================================================================
